---- MODULE Spec2Model ----
(***************************************************************************)
(* Model of the COMMENT context manager of src/__init__.py: the scope      *)
(* object with its class-wide visited set, the trace callback it installs  *)
(* with sys.settrace, and the rewrite of the target file at __exit__.      *)
(*                                                                         *)
(* The interpreter is modelled as far as the code depends on it: one       *)
(* thread with a stack of running function frames and open `with` blocks,  *)
(* the thread's trace hook (sys.gettrace / sys.settrace), the local trace  *)
(* function every frame receives from the hook's answer to its 'call'      *)
(* event, and the exception that is propagating, if any.                   *)
(*                                                                         *)
(* Text is a sequence of tokens; "\n" is the newline token.  A file is a   *)
(* sequence of lines as readlines() returns them.                          *)
(***************************************************************************)
EXTENDS Integers, Sequences, FiniteSets, TLC

\* ---------------------------------------------------------------- bounds
MaxDepth == 2     \* with blocks and script functions open at the same time
MaxEnters == 2    \* __enter__ calls of non-inert scopes in one run

\* The COMMENT objects the script constructs, and the lines of a source file.
Objs == {1, 2}
Lines == {1, 2}
LastLine == CHOOSE l \in Lines : \A m \in Lines : m <= l

\* ----------------------------------------------------------- file names
\* co_filename of the code objects of the run: the main script, started
\* with a relative path, and an imported module.
MainCo == "main.py"
LibCo == "/w/lib.py"
CoFiles == {MainCo, LibCo}
Cwd == "/w/"

\* os.path.abspath for the paths above: a relative path is joined to the
\* working directory, an absolute one is kept.
abspath(p) == IF p = MainCo THEN Cwd \o p ELSE p

Paths == {abspath(p) : p \in CoFiles}

\* ------------------------------------------------------ returned values
\* A returned value as the trace callback sees it: whether hasattr finds
\* shape and dtype, str(arg.dtype) as tokens, arg.shape as a sequence of
\* integers, and whether reading or converting the attributes raises.
MkVal(n, s, d, dt, sh, r) ==
    [name |-> n, hasShape |-> s, hasDtype |-> d, dtype |-> dt, shape |-> sh, raises |-> r]

NoneVal == MkVal("None", FALSE, FALSE, <<>>, <<>>, FALSE)
ShapeOnly == MkVal("shapeOnly", TRUE, FALSE, <<>>, <<3>>, FALSE)
DtypeOnly == MkVal("dtypeOnly", FALSE, TRUE, <<"int64">>, <<>>, FALSE)
NpVec == MkVal("np(12,)", TRUE, TRUE, <<"int64">>, <<12>>, FALSE)
TorchMat == MkVal("torch(2,6)", TRUE, TRUE, <<"torch", ".", "int64">>, <<2, 6>>, FALSE)
BadShape == MkVal("badShape", TRUE, TRUE, <<"int64">>, <<>>, TRUE)

Values == {NoneVal, ShapeOnly, DtypeOnly, NpVec, TorchMat, BadShape}

\* The values the functions of the modelled run return.
Returned == {NoneVal, TorchMat, BadShape}

\* ------------------------------------------------------------ descriptor
\* s.split('.')[-1]: the tokens after the last "." of s.
RECURSIVE SplitLast(_)
SplitLast(s) ==
    IF \E i \in 1..Len(s) : s[i] = "."
    THEN SplitLast(Tail(s))
    ELSE s

\* The elements of a tuple joined by ", ", as repr prints them.
RECURSIVE JoinElems(_)
JoinElems(sh) ==
    IF Len(sh) = 0 THEN <<>>
    ELSE IF Len(sh) = 1 THEN <<ToString(sh[1])>>
    ELSE <<ToString(sh[1]), ",", " ">> \o JoinElems(Tail(sh))

\* str(tuple(shape)): "()", "(n,)" or "(a, b, ...)".
TupleStr(sh) ==
    IF Len(sh) = 1
    THEN <<"(", ToString(sh[1]), ",", ")">>
    ELSE <<"(">> \o JoinElems(sh) \o <<")">>

\* str(arg.dtype).split('.')[-1] + str(tuple(arg.shape))
Descriptor(arg) == SplitLast(arg.dtype) \o TupleStr(arg.shape)

\* ---------------------------------------------------------- the tracers
\* A trace function: None, the tracer closure made by one __enter__ of a
\* COMMENT object (self, and a serial number telling closures apart), or a
\* trace function of some other tool that was installed before.
None == [kind |-> "None", self |-> 0, id |-> 0]
Other == [kind |-> "other", self |-> 0, id |-> 0]
Closure(o, n) == [kind |-> "tracer", self |-> o, id |-> n]

EmptyDict == [l \in {} |-> <<>>]

\* Whether the closure body lets an exception escape: the attributes are
\* read and converted only after every early return was passed.
TracerRaises(target, event, back, b_co, arg) ==
    /\ event = "return"
    /\ back
    /\ abspath(b_co) = target
    /\ arg.hasShape /\ arg.hasDtype
    /\ arg.raises

\* Mutants of the callback's effect on self.comment.
TracerCommentAnyFile(cm, target, event, back, b_co, b_lineno, arg) ==
    IF event # "return" \/ ~back THEN cm
    ELSE IF arg.hasShape /\ arg.hasDtype /\ ~arg.raises
    THEN [l \in DOMAIN cm \cup {b_lineno} |->
            IF l = b_lineno THEN Descriptor(arg) ELSE cm[l]]
    ELSE cm

TracerCommentShapeOnly(cm, target, event, back, b_co, b_lineno, arg) ==
    IF event # "return" \/ ~back \/ abspath(b_co) # target THEN cm
    ELSE IF arg.hasShape /\ ~arg.raises
    THEN [l \in DOMAIN cm \cup {b_lineno} |->
            IF l = b_lineno THEN Descriptor(arg) ELSE cm[l]]
    ELSE cm

TracerCommentFirstWins(cm, target, event, back, b_co, b_lineno, arg) ==
    IF event # "return" \/ ~back \/ abspath(b_co) # target THEN cm
    ELSE IF arg.hasShape /\ arg.hasDtype /\ ~arg.raises /\ b_lineno \notin DOMAIN cm
    THEN [l \in DOMAIN cm \cup {b_lineno} |->
            IF l = b_lineno THEN Descriptor(arg) ELSE cm[l]]
    ELSE cm

\* self.comment after tracer(frame, event, arg): back says whether
\* frame.f_back exists, b_co is frame.f_back.f_code.co_filename and
\* b_lineno is frame.f_back.f_lineno.
TracerComment(cm, target, event, back, b_co, b_lineno, arg) ==
    IF event # "return" THEN cm
    ELSE IF ~back THEN cm
    ELSE IF abspath(b_co) # target THEN cm
    ELSE IF arg.hasShape /\ arg.hasDtype /\ ~arg.raises
    THEN [l \in DOMAIN cm \cup {b_lineno} |->
            IF l = b_lineno THEN Descriptor(arg) ELSE cm[l]]
    ELSE cm

\* What tracer(frame, event, arg) returns: itself at the three early
\* returns, and nothing when it falls off the end of the body.
TracerResult(t, target, event, back, b_co) ==
    IF event # "return" THEN t
    ELSE IF ~back THEN t
    ELSE IF abspath(b_co) # target THEN t
    ELSE None

\* ------------------------------------------------------------ the patch
Newline == "\n"

\* lines[b_lineno-1][:-1] + "# " + self.comment[b_lineno] + "\n"
PatchLine(line, desc) ==
    SubSeq(line, 1, Len(line) - 1) \o <<"#", " ">> \o desc \o <<Newline>>

\* The loop over self.comment: every recorded line is replaced once.
PatchLines(lines, cm) ==
    [i \in 1..Len(lines) |->
        IF i \in DOMAIN cm THEN PatchLine(lines[i], cm[i]) ELSE lines[i]]

\* ================================================================= state
VARIABLES
    visited,   \* COMMENT.visited: the positions of every scope constructed
    objs,      \* the COMMENT objects and their attributes
    hook,      \* the thread's trace function (sys.gettrace())
    stack,     \* open with blocks and running functions of the script, innermost last
    files,     \* path -> lines of the file on disk
    exc,       \* what is propagating: "none", "body" (raised by the running
               \* code) or "exit" (raised by __exit__ itself)
    phase,     \* "main" while the script runs, "atexit" after it ended
    nenter,    \* tracer closures created so far
    last       \* the __exit__ just run, with what it found (history)

vars == <<visited, objs, hook, stack, files, exc, phase, nenter, last>>

\* A COMMENT object before __init__ ran.
NoObj ==
    [made |-> FALSE, target_filename |-> "", target_lineno |-> 0,
     noentry |-> FALSE, comment |-> EmptyDict, tracer |-> None, entered |-> FALSE]

\* Stack entries: a running function of the script that may open with
\* blocks (its local trace function), or an open with block (its object;
\* prev remembers the hook found at __enter__, for the properties only).
Frame(ft) ==
    [kind |-> "call", obj |-> 0, f_trace |-> ft, prev |-> None, own |-> None,
     later |-> FALSE, nested |-> FALSE]
\* own is the hook __enter__ left installed; later says that a scope at the
\* same position had been entered before; nested says that a non-inert
\* scope was entered inside this block (all three for the properties only).
WithBlock(o, prev, own, later) ==
    [kind |-> "with", obj |-> o, f_trace |-> None, prev |-> prev, own |-> own,
     later |-> later, nested |-> FALSE]

\* An event as the trace function receives it.
Event(event, back, b_co, b_lineno, arg) ==
    [event |-> event, back |-> back, b_co |-> b_co, b_lineno |-> b_lineno, arg |-> arg]
NoEvent == Event("", TRUE, "", 0, NoneVal)

\* History of the step just taken.  After __exit__ (op "exit"): the object,
\* whether it was inert, the hook found at the matching __enter__, how the
\* file part ended, the lines and the descriptors it found, what was
\* propagating, whether the position had been entered before, and the
\* closure of the nearest enclosing non-inert scope.  After one call of the
\* trace function (op "trace"): the event, what the function returned,
\* whether it raised, and the descriptors before the call.  want holds, per
\* line, the descriptor of the latest return event that had a caller in the
\* target file and a value with shape and dtype.
NoLast ==
    [op |-> "", obj |-> 0, inert |-> FALSE, prev |-> None, io |-> "", pre |-> <<>>,
     cm |-> EmptyDict, excIn |-> "none", later |-> FALSE, hasOuter |-> FALSE,
     outer |-> None, nested |-> FALSE, ev |-> NoEvent, ret |-> None, raised |-> FALSE,
     want |-> EmptyDict]

\* Line i of a source file as first written: a statement and, except
\* possibly at the end of the file, a newline.
SourceLine(i, nl) == IF nl THEN <<"s" \o ToString(i), Newline>> ELSE <<"s" \o ToString(i)>>
SourceFile(eofNewline) == [i \in Lines |-> SourceLine(i, i < LastLine \/ eofNewline)]

Init ==
    /\ visited = {}
    /\ objs = [o \in Objs |-> NoObj]
    /\ hook = None
    /\ stack = <<>>
    /\ \E nl \in BOOLEAN : files = [p \in Paths |-> SourceFile(nl)]
    /\ exc = "none"
    /\ phase = "main"
    /\ nenter = 0
    /\ last = NoLast

Top == stack[Len(stack)]
Pop == SubSeq(stack, 1, Len(stack) - 1)

\* ------------------------------------------------------------ __init__
\* COMMENT(): the position is the caller's file and line; the object is
\* inert when the position was seen before.
InitObj(file, lineno, seen) ==
    [made |-> TRUE, target_filename |-> file, target_lineno |-> lineno,
     noentry |-> <<file, lineno>> \in seen, comment |-> EmptyDict, tracer |-> None,
     entered |-> FALSE]

\* A constructor that starts the set of positions afresh.
InitVisitedReset(file, lineno, seen) == {<<file, lineno>>}

\* A constructor that leaves the recording of the position to __enter__.
InitVisitedNoAdd(file, lineno, seen) == seen

\* COMMENT.visited.add(self.position)
InitVisited(file, lineno, seen) == seen \cup {<<file, lineno>>}

\* The script constructs a scope object at one of its lines.  Objects are
\* numbered in the order of their construction.
Construct(o, lineno) ==
    /\ phase = "main" /\ exc = "none"
    /\ ~objs[o].made
    /\ \A q \in Objs : q < o => objs[q].made
    /\ objs' = [objs EXCEPT ![o] = InitObj(abspath(MainCo), lineno, visited)]
    /\ visited' = InitVisited(abspath(MainCo), lineno, visited)
    /\ last' = NoLast
    /\ UNCHANGED <<hook, stack, files, exc, phase, nenter>>

\* ----------------------------------------------------------- __enter__
\* An __enter__ that treats an object entered before like an inert one.
EnterHookOnce(ob, o, h, n) == IF ob.noentry \/ ob.entered THEN h ELSE Closure(o, n + 1)

\* The hook after __enter__ of object o: the new closure, unless inert.
EnterHook(ob, o, h, n) == IF ob.noentry THEN h ELSE Closure(o, n + 1)

\* self._tracer after __enter__: sys.gettrace(), unless inert.
EnterSaved(ob, h) == IF ob.noentry THEN ob.tracer ELSE h

\* The position of object o (self.position).
Position(o) == <<objs[o].target_filename, objs[o].target_lineno>>

\* Some scope at the position of o was entered before.
EnteredBefore(o) == \E q \in Objs : objs[q].entered /\ Position(q) = Position(o)

\* The open with blocks of non-inert scopes in the stack s.
Enclosing(s) == {i \in 1..Len(s) : s[i].kind = "with" /\ ~objs[s[i].obj].noentry}
Innermost(S) == CHOOSE i \in S : \A j \in S : j <= i

\* The stack with its non-inert with blocks marked as enclosing another.
MarkNested(s) ==
    [i \in 1..Len(s) |-> IF i \in Enclosing(s) THEN [s[i] EXCEPT !.nested = TRUE] ELSE s[i]]

\* `with c:` in the script, for an object c constructed before.
Enter(o) ==
    /\ phase = "main" /\ exc = "none"
    /\ objs[o].made
    /\ Len(stack) < MaxDepth
    /\ objs[o].noentry \/ nenter < MaxEnters
    /\ objs' = [objs EXCEPT ![o].tracer = EnterSaved(objs[o], hook),
                            ![o].entered = TRUE]
    /\ hook' = EnterHook(objs[o], o, hook, nenter)
    /\ nenter' = IF objs[o].noentry THEN nenter ELSE nenter + 1
    /\ stack' = Append(IF objs[o].noentry THEN stack ELSE MarkNested(stack),
                       WithBlock(o, hook, EnterHook(objs[o], o, hook, nenter),
                                 EnteredBefore(o)))
    /\ last' = NoLast
    /\ UNCHANGED <<visited, files, exc, phase>>

\* ------------------------------------------------- interpreter: tracing
\* The target file of the object whose closure t is.
Target(t) == objs[t.self].target_filename

\* The local trace function of a new frame: the hook's answer to the
\* frame's 'call' event (a closure answers with itself).
CallTrace(h) ==
    IF h.kind = "tracer" THEN TracerResult(h, Target(h), "call", TRUE, MainCo) ELSE h

\* The interpreter delivers an event of a frame to its local trace
\* function ft only while the thread has a hook.
Delivered(ft) == hook # None /\ ft.kind = "tracer"

\* objs after the 'return' event of a frame with local trace function ft.
AfterReturn(ft, back, b_co, b_lineno, arg) ==
    IF Delivered(ft)
    THEN [objs EXCEPT ![ft.self].comment =
            TracerComment(@, Target(ft), "return", back, b_co, b_lineno, arg)]
    ELSE objs

\* Whether the trace function lets an exception escape at that event.
ReturnRaises(ft, back, b_co, arg) ==
    Delivered(ft) /\ TracerRaises(Target(ft), "return", back, b_co, arg)

\* A function of the script is called; it may open with blocks itself.
Call ==
    /\ phase = "main" /\ exc = "none"
    /\ Len(stack) < MaxDepth
    /\ stack' = Append(stack, Frame(CallTrace(hook)))
    /\ last' = NoLast
    /\ UNCHANGED <<visited, objs, hook, files, exc, phase, nenter>>

\* That function returns arg to its caller in the script, at line b_lineno
\* (None when an exception leaves it).  An exception escaping from the trace
\* function ends tracing (the interpreter sets the hook to None) and
\* propagates in the caller.
Return(arg, b_lineno) ==
    /\ stack # <<>> /\ Top.kind = "call"
    /\ exc = "none" \/ arg = NoneVal
    /\ stack' = Pop
    /\ objs' = AfterReturn(Top.f_trace, TRUE, MainCo, b_lineno, arg)
    /\ hook' = IF ReturnRaises(Top.f_trace, TRUE, MainCo, arg) THEN None ELSE hook
    /\ exc' = IF ReturnRaises(Top.f_trace, TRUE, MainCo, arg) THEN "body" ELSE exc
    /\ last' = NoLast
    /\ UNCHANGED <<visited, files, phase, nenter>>

\* Any other function is called while the thread is traced and returns arg:
\* to the running code of the script, or to library code that the running
\* code called (b_co is the caller's co_filename, b_lineno its line).  After
\* the script ended, the runtime calls exit handlers, which have no caller.
Leaf(back, b_co, b_lineno, arg) ==
    /\ exc = "none"
    /\ hook # None
    /\ back \/ phase = "atexit"
    /\ objs' = AfterReturn(CallTrace(hook), back, b_co, b_lineno, arg)
    /\ hook' = IF ReturnRaises(CallTrace(hook), back, b_co, arg) THEN None ELSE hook
    /\ exc' = IF ReturnRaises(CallTrace(hook), back, b_co, arg) /\ phase = "main"
              THEN "body" ELSE exc
    /\ last' = NoLast
    /\ UNCHANGED <<visited, stack, files, phase, nenter>>

\* A 'line' event of the running function, or the 'exception' event of a
\* function an exception passes through.
LocalEvent(event) ==
    /\ stack # <<>> /\ Top.kind = "call" /\ Delivered(Top.f_trace)
    /\ (event = "line" /\ exc = "none") \/ (event = "exception" /\ exc # "none")
    /\ objs' = [objs EXCEPT ![Top.f_trace.self].comment =
                  TracerComment(@, Target(Top.f_trace), event, TRUE, MainCo, 1, NoneVal)]
    /\ last' = NoLast
    /\ UNCHANGED <<visited, hook, stack, files, exc, phase, nenter>>

\* The running code raises; a handler in the running code catches.
Raise ==
    /\ phase = "main" /\ exc = "none"
    /\ exc' = "body"
    /\ last' = NoLast
    /\ UNCHANGED <<visited, objs, hook, stack, files, phase, nenter>>

Catch ==
    /\ exc # "none"
    /\ exc' = "none"
    /\ last' = NoLast
    /\ UNCHANGED <<visited, objs, hook, stack, files, phase, nenter>>

\* The script ends (an exception that reached the top ends it as well).
MainExit ==
    /\ phase = "main" /\ stack = <<>>
    /\ phase' = "atexit"
    /\ exc' = "none"
    /\ last' = NoLast
    /\ UNCHANGED <<visited, objs, hook, stack, files, nenter>>

\* ------------------------------------------------------------ __exit__
\* An __exit__ that restores self._tracer without looking at noentry.
ExitHookAlways(ob, h) == ob.tracer

\* The hook after __exit__: sys.settrace(self._tracer), unless inert.
ExitHook(ob, h) == IF ob.noentry THEN h ELSE ob.tracer

\* How the file part of __exit__ can end: "ok"; "read" (open or readlines
\* fails); "open" (the file cannot be opened for writing).  Both failures
\* leave the file as it was.  A write that fails midway, which leaves a
\* truncated file, is not followed.
Outcomes == {"ok", "read", "open"}

\* The lines on disk after __exit__.
ExitLines(ob, lines, io) ==
    IF ob.noentry \/ io # "ok" THEN lines ELSE PatchLines(lines, ob.comment)

\* An __exit__ that swallows the exception of the with block.
ExitExcSwallow(ob, excIn, io) ==
    IF ob.noentry THEN excIn ELSE IF io = "ok" THEN "none" ELSE "exit"

\* What propagates after __exit__: it returns None, so an exception of the
\* with block goes on; an error of its own replaces it.
ExitExc(ob, excIn, io) ==
    IF ob.noentry \/ io = "ok" THEN excIn ELSE "exit"

\* The with block on top is left, normally or by an exception.
Exit(io) ==
    /\ stack # <<>> /\ Top.kind = "with"
    /\ objs[Top.obj].noentry => io = "ok"
    /\ LET ob == objs[Top.obj]
           lines == files[ob.target_filename]
       IN /\ stack' = Pop
          /\ hook' = ExitHook(ob, hook)
          /\ files' = [files EXCEPT ![ob.target_filename] = ExitLines(ob, lines, io)]
          /\ exc' = ExitExc(ob, exc, io)
          /\ last' = [NoLast EXCEPT !.op = "exit", !.obj = Top.obj,
                        !.inert = ob.noentry, !.prev = Top.prev, !.io = io,
                        !.pre = lines, !.cm = ob.comment, !.excIn = exc,
                        !.later = Top.later, !.nested = Top.nested, !.hasOuter = Enclosing(Pop) # {},
                        !.outer = IF Enclosing(Pop) = {} THEN None
                                  ELSE Pop[Innermost(Enclosing(Pop))].own,
                        !.want = last.want]
    /\ UNCHANGED <<visited, objs, phase, nenter>>

\* ------------------------------------------------------- specification
Next ==
    \/ \E o \in Objs, l \in Lines : Construct(o, l)
    \/ \E o \in Objs : Enter(o)
    \/ Call
    \/ \E a \in Returned, l \in Lines : Return(a, l)
    \/ \E b \in BOOLEAN, c \in CoFiles, l \in Lines, a \in Returned : Leaf(b, c, l, a)
    \/ \E e \in {"line", "exception"} : LocalEvent(e)
    \/ Raise
    \/ Catch
    \/ \E io \in Outcomes : Exit(io)
    \/ MainExit

Spec == Init /\ [][Next]_vars

\* ------------------------------------- one activation, event by event
\* The interpreter calls the installed closure with one event of a frame
\* that was called under it.  Every event kind, frame shape and value is
\* tried (only a 'return' event carries a value); the step and what the
\* closure found are recorded in last.
Events == {"call", "line", "return", "exception"}

\* Whether the event is a return to a caller in the target file of a value
\* with both attributes whose descriptor can be computed.
Matching(ev, target) ==
    /\ ev.event = "return" /\ ev.back /\ abspath(ev.b_co) = target
    /\ ev.arg.hasShape /\ ev.arg.hasDtype /\ ~ev.arg.raises

\* want after the event: per line, the value of the latest matching return,
\* that of the first one, and whether there were several.
WantAfter(w, ev, target) ==
    IF Matching(ev, target)
    THEN [l \in DOMAIN w \cup {ev.b_lineno} |->
            IF l # ev.b_lineno THEN w[l]
            ELSE IF l \in DOMAIN w
                 THEN [arg |-> ev.arg, first |-> w[l].first, several |-> TRUE]
                 ELSE [arg |-> ev.arg, first |-> ev.arg, several |-> FALSE]]
    ELSE w

Trace(event, back, b_co, b_lineno, arg) ==
    /\ hook.kind = "tracer" /\ exc = "none"
    /\ event # "return" => arg = NoneVal
    /\ LET o == hook.self
           raised == TracerRaises(Target(hook), event, back, b_co, arg)
       IN /\ objs' = [objs EXCEPT ![o].comment =
                        TracerComment(@, Target(hook), event, back, b_co, b_lineno, arg)]
          /\ hook' = IF raised THEN None ELSE hook
          /\ exc' = IF raised THEN "body" ELSE exc
          /\ last' = [NoLast EXCEPT !.op = "trace", !.obj = o,
                        !.ev = Event(event, back, b_co, b_lineno, arg),
                        !.ret = IF raised THEN None
                                ELSE TracerResult(hook, Target(hook), event, back, b_co),
                        !.raised = raised, !.cm = objs[o].comment,
                        !.want = WantAfter(last.want,
                                           Event(event, back, b_co, b_lineno, arg),
                                           Target(hook))]
    /\ UNCHANGED <<visited, stack, files, phase, nenter>>

\* The state right after `with COMMENT():` at a line of the script.
InitTracer ==
    \E l \in Lines, nl \in BOOLEAN :
        LET ob == InitObj(abspath(MainCo), l, {}) IN
        /\ visited = InitVisited(abspath(MainCo), l, {})
        /\ objs = [o \in Objs |->
                    IF o = 1 THEN [ob EXCEPT !.tracer = EnterSaved(ob, None), !.entered = TRUE]
                    ELSE NoObj]
        /\ hook = EnterHook(ob, 1, None, 0)
        /\ stack = <<WithBlock(1, None, EnterHook(ob, 1, None, 0), FALSE)>>
        /\ files = [p \in Paths |-> SourceFile(nl)]
        /\ exc = "none"
        /\ phase = "main"
        /\ nenter = 1
        /\ last = NoLast

NextTracer ==
    \/ \E e \in Events, b \in BOOLEAN, c \in CoFiles, l \in Lines, a \in Values :
          Trace(e, b, c, l, a)
    \/ \E io \in Outcomes : Exit(io)

SpecTracer == InitTracer /\ [][NextTracer]_vars

\* ------------------------------------------------------------- dissect
\* The trace function that dissect(f) defines.  It prints and keeps
\* data.depth, data.filename and data.captured, which no COMMENT object
\* reads; of its body the state needs only whether it raises.
DissectTracer == [kind |-> "dissect", self |-> 0, id |-> 0]

\* Whether dissect's tracer lets an exception escape: it reads
\* frame.f_back.f_code before it tests frame.f_back, and on a return event
\* of a value with shape, one level below data.depth (near), it converts
\* tuple(arg.shape).
DissectRaises(event, back, near, arg) ==
    \/ ~back
    \/ event = "return" /\ arg.hasShape /\ near /\ arg.raises

\* sys.settrace(tracer) in wrapper.
WrapperEnterHook(h) == DissectTracer

\* A wrapper that restores the hook only when f returns.
WrapperExitHookNoFinally(saved, h, excIn) == IF excIn = "none" THEN saved ELSE h

\* finally: sys.settrace(_tracer), however f ended.
WrapperExitHook(saved, h, excIn) == saved

\* The script calls the wrapper: _tracer = sys.gettrace() (kept in prev),
\* then the tracer of dissect is installed and f starts.
WrapperCall ==
    /\ phase = "main" /\ exc = "none"
    /\ Len(stack) < MaxDepth
    /\ stack' = Append(stack, [WithBlock(0, hook, WrapperEnterHook(hook), FALSE)
                                 EXCEPT !.kind = "wrapper", !.f_trace = CallTrace(hook)])
    /\ hook' = WrapperEnterHook(hook)
    /\ last' = NoLast
    /\ UNCHANGED <<visited, objs, files, exc, phase, nenter>>

\* f returns or an exception leaves it; the finally clause runs and the
\* wrapper returns data.captured or lets the exception go on.
WrapperReturn ==
    /\ stack # <<>> /\ Top.kind = "wrapper"
    /\ stack' = Pop
    /\ hook' = WrapperExitHook(Top.prev, hook, exc)
    /\ last' = [NoLast EXCEPT !.op = "wrapper", !.prev = Top.prev, !.excIn = exc,
                  !.hasOuter = Enclosing(Pop) # {},
                  !.outer = IF Enclosing(Pop) = {} THEN None
                            ELSE Pop[Innermost(Enclosing(Pop))].own]
    /\ UNCHANGED <<visited, objs, files, exc, phase, nenter>>

\* An event of a frame running under dissect's tracer (every such frame has
\* a caller: f is called by the wrapper).  An exception escaping from the
\* tracer ends tracing and propagates in f.
DissectEvent(event, back, near, arg) ==
    /\ phase = "main" /\ exc = "none"
    /\ hook = DissectTracer
    /\ event # "return" => arg = NoneVal
    /\ hook' = IF DissectRaises(event, back, near, arg) THEN None ELSE hook
    /\ exc' = IF DissectRaises(event, back, near, arg) THEN "body" ELSE exc
    /\ last' = NoLast
    /\ UNCHANGED <<visited, objs, stack, files, phase, nenter>>

\* Runs of a script that uses dissect and COMMENT together; its traced
\* calls are made from its first line or from library code.
NextDissect ==
    \/ \E o \in Objs, l \in Lines : Construct(o, l)
    \/ \E o \in Objs : Enter(o)
    \/ \E c \in CoFiles, a \in Returned : Leaf(TRUE, c, 1, a)
    \/ Raise
    \/ Catch
    \/ \E io \in Outcomes : Exit(io)
    \/ WrapperCall
    \/ WrapperReturn
    \/ \E e \in Events, n \in BOOLEAN, a \in Returned : DissectEvent(e, TRUE, n, a)

SpecDissect == Init /\ [][NextDissect]_vars

\* ============================================================ properties
\* The file the object of the last __exit__ or trace call points at.
LastFile == files[objs[last.obj].target_filename]

\* A line without its trailing newline, if it has one.
StripNewline(line) ==
    IF Len(line) > 0 /\ line[Len(line)] = Newline
    THEN SubSeq(line, 1, Len(line) - 1)
    ELSE line

IsPrefix(a, b) == Len(a) <= Len(b) /\ SubSeq(b, 1, Len(a)) = a

\* How many comment marks a line holds.
Marks(line) == Cardinality({i \in 1..Len(line) : line[i] = "#"})

\* The last __exit__ was that of a non-inert scope and rewrote the file.
Patched == last.op = "exit" /\ ~last.inert /\ last.io = "ok"

\* C1: an activation at a position at which a scope was entered before
\* leaves the file as it was.
C1_LaterActivationLeavesFile ==
    (last.op = "exit" /\ last.later) => LastFile = last.pre

\* C2: in every file, every line holds at most one appended descriptor
\* comment, whatever scopes ran.
C2_AtMostOneCommentPerLine ==
    \A p \in Paths : \A i \in 1..Len(files[p]) : Marks(files[p][i]) <= 1

\* C3: after __exit__ of a non-inert scope the installed trace function is
\* the one that was installed right before that scope's __enter__.
C3_ExitRestoresPrevious ==
    (last.op = "exit" /\ ~last.inert) => hook = last.prev

\* C4: for nested non-inert scopes the hook is restored in LIFO order: after
\* the exit of an inner scope the closure of the enclosing scope is
\* installed, and after the exit of a scope that enclosed another one the
\* hook found at its own __enter__ is installed.
C4_NestedLifo ==
    (last.op = "exit" /\ ~last.inert) =>
        /\ last.hasOuter => hook = last.outer
        /\ last.nested => hook = last.prev

\* C5: the patch keeps the number and order of the lines, leaves the lines
\* without descriptor as they were, and only appends to the others: what a
\* line held before its trailing newline is still there, also for a last
\* line without newline.
C5_PatchPreservesStructure ==
    Patched =>
        /\ Len(LastFile) = Len(last.pre)
        /\ \A i \in 1..Len(last.pre) :
            /\ i \notin DOMAIN last.cm => LastFile[i] = last.pre[i]
            /\ i \in DOMAIN last.cm => IsPrefix(StripNewline(last.pre[i]), LastFile[i])

\* C6: every patched line is the original line without its trailing
\* newline, then "# ", then the descriptor, then a newline; the descriptor
\* is the last dot-separated part of the type followed by the shape tuple.
C6_PatchedLineFormat ==
    Patched =>
        \A i \in DOMAIN last.cm :
            /\ LastFile[i] = StripNewline(last.pre[i]) \o <<"#", " ">> \o last.cm[i] \o <<Newline>>
            /\ i \in DOMAIN last.want =>
                /\ last.want[i].arg = NpVec => last.cm[i] = <<"int64", "(", "12", ",", ")">>
                /\ last.want[i].arg = TorchMat =>
                        last.cm[i] = <<"int64", "(", "2", ",", " ", "6", ")">>

\* An attribution miss: not a return, no caller, or a caller in another file.
Miss(ev, target) ==
    ev.event # "return" \/ ~ev.back \/ abspath(ev.b_co) # target

\* C7: a call of the trace function for an attribution miss leaves the
\* descriptors of the scope as they were.
C7_MissLeavesDescriptors ==
    (last.op = "trace" /\ Miss(last.ev, objs[last.obj].target_filename)) =>
        objs[last.obj].comment = last.cm

C7_Witness ==
    /\ last.op = "trace"
    /\ last.ev.event = "return" /\ last.ev.back
    /\ abspath(last.ev.b_co) # objs[last.obj].target_filename
    /\ last.ev.arg = TorchMat
    /\ last.cm # EmptyDict
    /\ objs[last.obj].comment = last.cm

\* C8: a call of the trace function with a value that lacks shape or lacks
\* dtype records nothing; the descriptors change only for a value with both.
C8_FilterLeavesDescriptors ==
    (last.op = "trace" /\ (~last.ev.arg.hasShape \/ ~last.ev.arg.hasDtype)) =>
        objs[last.obj].comment = last.cm

C8_Witness ==
    /\ last.op = "trace"
    /\ ~Miss(last.ev, objs[last.obj].target_filename)
    /\ last.ev.arg = ShapeOnly
    /\ last.ev.b_lineno \notin DOMAIN last.cm
    /\ objs[last.obj].comment = last.cm

\* C9: the descriptor stored for a line, and appended to it at __exit__, is
\* the one of the latest matching return event attributed to that line.
C9_LastWriteWins ==
    /\ last.op = "trace" =>
        /\ DOMAIN objs[last.obj].comment = DOMAIN last.want
        /\ \A l \in DOMAIN last.want :
              objs[last.obj].comment[l] = Descriptor(last.want[l].arg)
    /\ Patched =>
        \A l \in DOMAIN last.want :
            IsPrefix(<<"#", " ">> \o Descriptor(last.want[l].arg) \o <<Newline>>,
                     SubSeq(LastFile[l], Len(last.pre[l]), Len(LastFile[l])))

C9_Witness ==
    /\ Patched
    /\ \E l \in DOMAIN last.want :
          /\ last.want[l].several
          /\ last.want[l].first # last.want[l].arg
          /\ last.cm[l] = Descriptor(last.want[l].arg)

\* The step is the __exit__ of a non-inert scope whose with block is left by
\* an exception of the block, and the file part of __exit__ succeeds.
ExitAfterError ==
    /\ stack # <<>> /\ Top.kind = "with" /\ ~objs[Top.obj].noentry
    /\ exc = "body"
    /\ last'.op = "exit" /\ last'.io = "ok"
    /\ Len(stack') < Len(stack)

\* C10: when an exception leaves the with block of a non-inert scope,
\* __exit__ still patches the file with exactly the descriptors collected
\* before the exception (none is recorded while it propagates), and the
\* exception goes on to the caller.
C10_ErrorStillPatches ==
    [][/\ exc # "none" /\ exc' # "none" =>
            \A o \in Objs : objs'[o].comment = objs[o].comment
       /\ ExitAfterError =>
            /\ exc' = "body"
            /\ \A i \in 1..Len(files[objs[Top.obj].target_filename]) :
                 LET old == files[objs[Top.obj].target_filename][i]
                     new == files'[objs[Top.obj].target_filename][i]
                     cm == objs[Top.obj].comment
                 IN IF i \in DOMAIN cm
                    THEN /\ Len(new) > Len(old)
                         /\ SubSeq(new, Len(old), Len(new)) = <<"#", " ">> \o cm[i] \o <<Newline>>
                    ELSE new = old]_vars

C10_Witness ==
    /\ Patched
    /\ last.excIn = "body" /\ exc = "body"
    /\ last.cm # EmptyDict
    /\ LastFile # last.pre

\* C11: the trace function never raises: whatever value is returned, also one
\* whose shape or dtype raises when read or converted, the call records
\* nothing for it and lets no exception escape into the traced program.
C11_TracerNeverRaises ==
    last.op = "trace" =>
        /\ ~last.raised
        /\ last.ev.arg.raises => objs[last.obj].comment = last.cm

\* C14: every call of the trace function, whatever the event and whether or
\* not it records a descriptor, returns the trace function itself.
C14_TracerReturnsItself ==
    (last.op = "trace" /\ ~last.raised) => last.ret = Closure(last.obj, nenter)

\* C12: the set of visited positions only grows: no step (construction,
\* __enter__, a trace event, __exit__, a failed patch) removes a position.
C12_VisitedOnlyGrows ==
    [][visited \subseteq visited']_vars

C12_Witness ==
    /\ Cardinality(visited) = 2
    /\ last.op = "exit" /\ ~last.inert /\ last.io = "open"
    /\ \A o \in Objs : objs[o].made /\ Position(o) \in visited

\* The step is the __enter__ of an inert scope; the __exit__ of one.
InertEnterStep ==
    /\ Len(stack') = Len(stack) + 1
    /\ stack'[Len(stack')].kind = "with"
    /\ objs[stack'[Len(stack')].obj].noentry

InertExitStep ==
    /\ stack # <<>> /\ Top.kind = "with" /\ objs[Top.obj].noentry
    /\ Len(stack') < Len(stack)

\* C13: __enter__ and __exit__ of an inert scope change nothing: the
\* installed trace function, the files and the descriptors of every scope
\* are the same after the step as before, so the closure of an enclosing
\* active scope that was installed stays installed.
C13_InertChangesNothing ==
    [][(InertEnterStep \/ InertExitStep) =>
            /\ hook' = hook
            /\ files' = files
            /\ \A o \in Objs : objs'[o].comment = objs[o].comment]_vars

C13_Witness ==
    /\ last.op = "exit" /\ last.inert
    /\ last.hasOuter /\ hook = last.outer /\ hook.kind = "tracer"
    /\ objs[hook.self].comment # EmptyDict

\* The objects whose descriptors the step changes.
Updated == {o \in Objs : objs'[o].comment # objs[o].comment}

\* C15: one trace function is installed at a time and a step updates the
\* descriptors of at most one scope, the innermost active one: the map of a
\* scope changes only while its with block is the innermost open block of a
\* non-inert scope, so not while another scope nested in it is active.
C15_OnlyInnermostUpdated ==
    [][/\ Cardinality(Updated) <= 1
       /\ \A o \in Updated :
            /\ Enclosing(stack) # {}
            /\ stack[Innermost(Enclosing(stack))].obj = o]_vars

\* The objects of non-inert scopes whose with block is open.
Active == {stack[i].obj : i \in Enclosing(stack)}

\* The step is the __enter__ of the non-inert scope o.
EnterStep(o) ==
    /\ Len(stack') = Len(stack) + 1
    /\ stack'[Len(stack')].kind = "with"
    /\ stack'[Len(stack')].obj = o
    /\ ~objs[o].noentry

\* C16: the descriptors of a scope change only between its __enter__ and
\* its __exit__: the map is empty at __enter__ and no event before
\* __enter__ or after __exit__ adds to it, so that __exit__ hands the
\* patch exactly what was recorded in between.
C16_MapChangesOnlyInWindow ==
    [][/\ \A o \in Objs : EnterStep(o) => objs[o].comment = EmptyDict
       /\ Updated \subseteq Active]_vars

\* C17: when reading or writing the file fails in __exit__ of a non-inert
\* scope, the error of the file operation propagates, nothing is tried
\* again (the file is as it was), and the trace function found at that
\* scope's __enter__ is installed all the same.
C17_IoErrorPropagates ==
    (last.op = "exit" /\ ~last.inert /\ last.io # "ok") =>
        /\ exc = "exit"
        /\ LastFile = last.pre
        /\ hook = last.prev

\* An object constructed before o at the position of o (objects are
\* numbered in the order of their construction).
EarlierAt(o) == \E q \in Objs : q < o /\ objs[q].made /\ Position(q) = Position(o)

\* C18: a scope is inert exactly when its position was in visited at its
\* construction; the position is recorded at construction, so an object
\* that is constructed and never entered makes every later scope at its
\* position inert, and only the first object of a position ever patches.
C18_InertIffVisitedAtConstruction ==
    /\ \A o \in Objs : objs[o].made =>
          /\ Position(o) \in visited
          /\ objs[o].noentry <=> EarlierAt(o)
    /\ (last.op = "exit" /\ LastFile # last.pre) => ~EarlierAt(last.obj)

C18_Witness ==
    /\ objs[1].made /\ ~objs[1].entered
    /\ objs[2].made /\ Position(2) = Position(1) /\ objs[2].noentry
    /\ last.op = "exit" /\ last.obj = 2
    /\ \A p \in Paths : \A i \in 1..Len(files[p]) : Marks(files[p][i]) = 0

\* The step is an __exit__ (a with block is on top and is left).
ExitStep == stack # <<>> /\ Top.kind = "with" /\ Len(stack') < Len(stack)

\* C19: inert status and descriptors belong to the object and survive
\* __exit__: entering a non-inert object again installs a closure of it
\* again with the descriptors it held, and no __exit__ resets them, so the
\* second __exit__ patches with the descriptors of both activations.
C19_ReentryPatchesAgain ==
    [][/\ \A o \in Objs :
            /\ objs'[o].noentry = objs[o].noentry \/ ~objs[o].made
            /\ (EnterStep(o) /\ objs[o].entered) =>
                  /\ hook'.kind = "tracer" /\ hook'.self = o /\ hook' # hook
                  /\ objs'[o].comment = objs[o].comment
       /\ ExitStep =>
            /\ objs'[Top.obj].comment = objs[Top.obj].comment
            /\ (~objs[Top.obj].noentry /\ last'.io = "ok") =>
                 \A i \in DOMAIN objs[Top.obj].comment :
                    LET f == objs[Top.obj].target_filename IN
                    files'[f][i] = SubSeq(files[f][i], 1, Len(files[f][i]) - 1)
                                     \o <<"#", " ">> \o objs[Top.obj].comment[i]
                                     \o <<Newline>>]_vars

\* The second __exit__ of the only object: line 1 was annotated by the
\* first activation and again now, line 2 now for the first time.
C19_Witness ==
    /\ ~objs[2].made
    /\ Patched /\ last.later /\ last.obj = 1
    /\ DOMAIN last.cm = {1, 2}
    /\ Marks(LastFile[1]) = 2 /\ Marks(LastFile[2]) = 1

\* C20: after the wrapper of dissect(f) ends, because f returned or because
\* an exception left f, the installed trace function is the one that was
\* installed when the wrapper was called, also for a call inside the with
\* block of an active scope.
C20_WrapperRestoresHook ==
    last.op = "wrapper" => hook = last.prev

C20_Witness ==
    /\ last.op = "wrapper" /\ last.excIn = "body"
    /\ last.hasOuter /\ last.prev = last.outer
    /\ hook = last.prev /\ hook.kind = "tracer"

====
